---------------------------- MODULE Spec2Model ----------------------------
(***************************************************************************)
(* A model of sc-extract's texture extractor: the Reader of src/utils.rs,  *)
(* the decompression dispatch of utils::decompress, and convert_pixel,     *)
(* adjust_pixels and process_tex of src/extractors/tex.rs.                 *)
(*                                                                         *)
(* Four specifications share the variables:                                *)
(*   SpecReader  any sequence of Reader operations on any small buffer     *)
(*   SpecPixel   one convert_pixel call on a Reader                        *)
(*   SpecTile    adjust_pixels, one loop test or put_pixel per step        *)
(*   Spec        process_tex: dispatch, then the chunk loop                *)
(***************************************************************************)
EXTENDS Integers, Sequences, FiniteSets, TLC

VARIABLES
    std_eof,     \* toolchain: Cursor::read_exact leaves the cursor at EOF on a short read
    stream,      \* Reader.stream: the underlying buffer
    pos,         \* Reader.stream: the cursor's position
    bytes_left,  \* Reader.bytes_left
    last,        \* the last Reader operation: its name, argument, pre-state and return value
    pixel_type,  \* convert_pixel's argument
    pixel_out,   \* convert_pixel's result
    adj,         \* adjust_pixels: its arguments, locals and position
    raw_data,    \* process_tex's input
    pc,          \* process_tex's position
    result,      \* process_tex's return value
    pic_count,   \* process_tex's pic_count
    files,       \* the sprites saved so far, in order: suffix length and image
    chunk,       \* the chunk loop's locals
    trace,       \* every chunk the loop has started: its type byte and where it began
    handed       \* what the dispatch did with raw_data: the call, the slice passed to
                 \* decompress and the bytes the library was fed

readerVars == <<std_eof, stream, pos, bytes_left>>
pixelVars  == <<pixel_type, pixel_out>>
texVars    == <<raw_data, pc, result, pic_count, files, chunk, trace, handed>>
vars == <<std_eof, stream, pos, bytes_left, last, pixel_type, pixel_out, adj,
          raw_data, pc, result, pic_count, files, chunk, trace, handed>>

---------------------------------------------------------------------------
(* Bounds of the model. *)

\* the longest buffer SpecReader and SpecPixel read from
MaxBufLen == 5

\* SpecTile's images are up to MaxBlocks blocks and one pixel wide and high
MaxBlocks == 1

\* the most chunks a decompressed container is put together from
MaxChunks == 3

\* the largest image (width * height) the chunk loop decodes; a larger one ends the run
MaxPixels == 4

---------------------------------------------------------------------------
(* Bytes and integers. *)

Min(a, b) == IF a < b THEN a ELSE b
Max(a, b) == IF a > b THEN a ELSE b

Zeros(n) == [k \in 1..n |-> 0]

\* &buf[p..]: what the cursor has not read
Remaining(buf, p) == SubSeq(buf, p + 1, Len(buf))

RECURSIVE SeqsUpTo(_, _)
SeqsUpTo(S, n) ==
    IF n = 0 THEN {<<>>}
    ELSE LET shorter == SeqsUpTo(S, n - 1)
         IN  shorter \cup {Append(s, b) : s \in {t \in shorter : Len(t) = n - 1}, b \in S}

\* byteorder's LittleEndian::read_u16 / read_i16 / read_u32 / read_i32.
\* TLC's integers end at 2^31 - 1: a u32 with its top bit set is held at that value,
\* which is above every length of the model; nothing here adds to it.
LE16(b)  == b[1] + 256 * b[2]
LEI16(b) == IF LE16(b) >= 32768 THEN LE16(b) - 65536 ELSE LE16(b)
LE32(b)  == IF b[4] < 128
            THEN b[1] + 256 * b[2] + 65536 * b[3] + 16777216 * b[4]
            ELSE 2147483647
LEI32(b) == b[1] + 256 * b[2] + 65536 * b[3]
            + 16777216 * (IF b[4] < 128 THEN b[4] ELSE b[4] - 256)

\* String::from_utf8_lossy on bytes that are ASCII or 0xFF: 0xFF is never valid
\* UTF-8 and becomes one U+FFFD; the result is the string's code points
Utf8Lossy(b) == [k \in 1..Len(b) |-> IF b[k] < 128 THEN b[k] ELSE 65533]

---------------------------------------------------------------------------
(* std::io::Cursor<&[u8]>. *)

\* Cursor::read_exact into a zeroed buffer of k bytes. A short read fails and leaves
\* the buffer as it was; the cursor stays (older std) or moves to EOF (std_eof).
CursorReadExact(buf, p, k) ==
    IF Len(buf) - p >= k
    THEN [ok |-> TRUE, pos |-> p + k, bytes |-> SubSeq(buf, p + 1, p + k)]
    ELSE [ok |-> FALSE, pos |-> IF std_eof THEN Len(buf) ELSE p, bytes |-> Zeros(k)]

\* Cursor::read_to_end(&mut out): appends everything unread to out
CursorReadToEnd(buf, p, out) ==
    [pos |-> Len(buf), bytes |-> out \o Remaining(buf, p)]

---------------------------------------------------------------------------
(* Reader (src/utils.rs). Each operation takes the buffer and the reader     *)
(* r = [pos, bytes_left] and gives the reader after it and the value.        *)

\* the bytes_left update every operation starts with
ReaderCountSkips(left, size) == left
ReaderCount(left, size) == IF size > left THEN 0 ELSE left - size

Reader_new(buf) == [pos |-> 0, bytes_left |-> Len(buf)]

\* Reader::read: the reader after it (ReaderReadTo) and the Vec it returns
\* (ReaderReadVec): size zero bytes, then read_to_end appends to them, or read_exact
\* overwrites them
ReaderReadTo(buf, r, size) ==
    LET left == ReaderCount(r.bytes_left, size)
    IN  IF left = 0
        THEN [pos |-> CursorReadToEnd(buf, r.pos, <<>>).pos, bytes_left |-> left]
        ELSE [pos |-> CursorReadExact(buf, r.pos, size).pos, bytes_left |-> left]

ReaderReadVec(buf, r, size) ==
    LET left == ReaderCount(r.bytes_left, size)
    IN  IF left = 0
        THEN CursorReadToEnd(buf, r.pos, Zeros(size)).bytes
        ELSE CursorReadExact(buf, r.pos, size).bytes

Reader_read(buf, r, size) ==
    LET to == ReaderReadTo(buf, r, size)
    IN  [pos |-> to.pos, bytes_left |-> to.bytes_left,
         val |-> ReaderReadVec(buf, r, size)]

ReaderTypedNoCount(buf, r, k) ==
    LET e == CursorReadExact(buf, r.pos, k)
    IN  [pos |-> e.pos, bytes_left |-> r.bytes_left, ok |-> e.ok, bytes |-> e.bytes]

\* the typed reads: byteorder reads k bytes with read_exact, Err becomes the default 0
ReaderTyped(buf, r, k) ==
    LET e == CursorReadExact(buf, r.pos, k)
    IN  [pos |-> e.pos, bytes_left |-> ReaderCount(r.bytes_left, k),
         ok |-> e.ok, bytes |-> e.bytes]

Reader_read_byte(buf, r) ==
    LET t == ReaderTyped(buf, r, 1)
    IN  [pos |-> t.pos, bytes_left |-> t.bytes_left,
         val |-> IF t.ok THEN t.bytes[1] ELSE 0]

Reader_read_uint16(buf, r) ==
    LET t == ReaderTyped(buf, r, 2)
    IN  [pos |-> t.pos, bytes_left |-> t.bytes_left,
         val |-> IF t.ok THEN LE16(t.bytes) ELSE 0]

Reader_read_uint32(buf, r) ==
    LET t == ReaderTyped(buf, r, 4)
    IN  [pos |-> t.pos, bytes_left |-> t.bytes_left,
         val |-> IF t.ok THEN LE32(t.bytes) ELSE 0]

Reader_read_int16(buf, r) ==
    LET t == ReaderTyped(buf, r, 2)
    IN  [pos |-> t.pos, bytes_left |-> t.bytes_left,
         val |-> IF t.ok THEN LEI16(t.bytes) ELSE 0]

Reader_read_int32(buf, r) ==
    LET t == ReaderTyped(buf, r, 4)
    IN  [pos |-> t.pos, bytes_left |-> t.bytes_left,
         val |-> IF t.ok THEN LEI32(t.bytes) ELSE 0]

\* read_string counts the length off bytes_left itself and then calls read, which
\* counts it off again
Reader_read_string(buf, r, length) ==
    LET counted == [pos |-> r.pos, bytes_left |-> ReaderCount(r.bytes_left, length)]
        e == Reader_read(buf, counted, length)
    IN  [pos |-> e.pos, bytes_left |-> e.bytes_left, val |-> Utf8Lossy(e.val)]

---------------------------------------------------------------------------
(* Values the specifications leave alone. *)

NoLast  == [op |-> "new", size |-> 0, pos0 |-> 0, left0 |-> 0, ret |-> <<>>]
NoAdj   == [pc |-> "idle"]
NoChunk == [file_type |-> 0]
NoHand  == [via |-> "none", input |-> <<>>, fed |-> <<>>]

IdlePixel == pixel_type = 0 /\ pixel_out = <<>>
IdleAdj   == adj = NoAdj
IdleTex   == /\ raw_data = <<>>
             /\ pc = "idle"
             /\ result = "none"
             /\ pic_count = 0
             /\ files = <<>>
             /\ chunk = NoChunk
             /\ trace = <<>>
             /\ handed = NoHand

---------------------------------------------------------------------------
(* SpecReader: any sequence of Reader operations.                           *)

\* the bytes SpecReader's buffers are made of
ReaderBytes == {0, 1, 255}

TheReader == [pos |-> pos, bytes_left |-> bytes_left]

\* the reader after an operation, and the record of the operation
Did(op, size, e) ==
    /\ pos' = e.pos
    /\ bytes_left' = e.bytes_left
    /\ last' = [op |-> op, size |-> size, pos0 |-> pos, left0 |-> bytes_left,
                ret |-> e.val]
    /\ UNCHANGED <<std_eof, stream, pixelVars, adj, texVars>>

InitReader ==
    /\ std_eof \in BOOLEAN
    /\ stream \in SeqsUpTo(ReaderBytes, MaxBufLen)
    /\ pos = Reader_new(stream).pos
    /\ bytes_left = Reader_new(stream).bytes_left
    /\ last = [NoLast EXCEPT !.left0 = Len(stream)]
    /\ IdlePixel /\ IdleAdj /\ IdleTex

Read == \E size \in 0..(MaxBufLen + 1) :
            Did("read", size, Reader_read(stream, TheReader, size))
ReadByte   == Did("read_byte", 1, Reader_read_byte(stream, TheReader))
ReadUint16 == Did("read_uint16", 2, Reader_read_uint16(stream, TheReader))
ReadUint32 == Did("read_uint32", 4, Reader_read_uint32(stream, TheReader))
ReadInt16  == Did("read_int16", 2, Reader_read_int16(stream, TheReader))
ReadInt32  == Did("read_int32", 4, Reader_read_int32(stream, TheReader))
ReadString == \E length \in 0..(MaxBufLen + 1) :
            Did("read_string", length, Reader_read_string(stream, TheReader, length))

NextReader ==
    \/ Read
    \/ ReadByte
    \/ ReadUint16
    \/ ReadUint32
    \/ ReadInt16
    \/ ReadInt32
    \/ ReadString

SpecReader == InitReader /\ [][NextReader]_vars

\* C3: Reader::read(n) returns exactly the next min(n, remaining) bytes of the
\* buffer, in buffer order, and leaves remaining at max(remaining - n, 0).
C3_ReadReturnsNextBytes ==
    last.op = "read" =>
        /\ last.ret = SubSeq(stream, last.pos0 + 1,
                             last.pos0 + Min(last.size, last.left0))
        /\ bytes_left = Max(last.left0 - last.size, 0)

\* C4: over any sequence of Reader operations bytes_left never increases from one
\* operation to the next and never exceeds the bytes the cursor has not read.
C4_BytesLeftBounded ==
    /\ bytes_left <= last.left0
    /\ bytes_left <= Len(stream) - pos

\* a read_string has run on a reader that still had bytes and left some unread while
\* the counter is already behind them
C4_Witness ==
    /\ last.op = "read_string"
    /\ last.left0 > 0
    /\ last.size > 0
    /\ bytes_left < Len(stream) - pos

---------------------------------------------------------------------------
(* convert_pixel (src/extractors/tex.rs). u16 shifts and masks as arithmetic; *)
(* "as u8" keeps the low 8 bits.                                              *)

AsU8(v) == v % 256
Shr(v, n) == v \div (2 ^ n)
Shl(v, n) == v * (2 ^ n)
And(v, mask) == v % (mask + 1)      \* mask is 2^k - 1

PixelOk(e, px) == [pos |-> e.pos, bytes_left |-> e.bytes_left, ok |-> TRUE, val |-> px]

convert_pixel(buf, r, ptype) ==
    CASE ptype \in {0, 1} ->
            LET e == Reader_read(buf, r, 4)
            IN  PixelOk(e, <<e.val[1], e.val[2], e.val[3], e.val[4]>>)
      [] ptype = 2 ->
            LET e == Reader_read_uint16(buf, r)
                pixel == e.val
            IN  PixelOk(e, << AsU8(Shl(And(Shr(pixel, 12), 15), 4)),
                              AsU8(Shl(And(Shr(pixel, 8), 15), 4)),
                              AsU8(Shl(And(Shr(pixel, 4), 15), 4)),
                              AsU8(Shl(And(pixel, 15), 4)) >>)
      [] ptype = 3 ->
            LET e == Reader_read_uint16(buf, r)
                pixel == e.val
            IN  PixelOk(e, << AsU8(Shl(And(Shr(pixel, 11), 31), 3)),
                              AsU8(Shl(And(Shr(pixel, 6), 31), 3)),
                              AsU8(Shl(And(Shr(pixel, 1), 31), 3)),
                              AsU8(Shl(And(pixel, 255), 7)) >>)
      [] ptype = 4 ->
            LET e == Reader_read_uint16(buf, r)
                pixel == e.val
            IN  PixelOk(e, << AsU8(Shl(And(Shr(pixel, 11), 31), 3)),
                              AsU8(Shl(And(Shr(pixel, 5), 63), 2)),
                              AsU8(Shl(And(pixel, 31), 3)),
                              255 >>)
      [] ptype = 6 ->
            LET e == Reader_read_uint16(buf, r)
                pixel == e.val
            IN  PixelOk(e, << AsU8(Shr(pixel, 8)), AsU8(Shr(pixel, 8)),
                              AsU8(Shr(pixel, 8)), AsU8(And(pixel, 255)) >>)
      [] ptype = 10 ->
            LET e == Reader_read_byte(buf, r)
                pixel == e.val
            IN  PixelOk(e, <<pixel, pixel, pixel, pixel>>)
      [] OTHER ->
            [pos |-> r.pos, bytes_left |-> r.bytes_left, ok |-> FALSE,
             val |-> "UnknownPixel"]

---------------------------------------------------------------------------
(* SpecPixel: convert_pixel calls, one after another, on one Reader.        *)

\* the bytes SpecPixel's buffers are made of
PixelBytes == {0, 1, 127, 165, 255}
\* the sub-types tried: the seven recognized ones and one that is not
PixelTypes == {0, 1, 2, 3, 4, 6, 10, 5}

InitPixel ==
    /\ std_eof \in BOOLEAN
    /\ stream \in SeqsUpTo(PixelBytes, MaxBufLen)
    /\ pos = Reader_new(stream).pos
    /\ bytes_left = Reader_new(stream).bytes_left
    /\ last = [NoLast EXCEPT !.left0 = Len(stream)]
    /\ pixel_type \in PixelTypes
    /\ pixel_out = <<>>
    /\ IdleAdj /\ IdleTex

ConvertPixel ==
    LET e == convert_pixel(stream, TheReader, pixel_type)
    IN  /\ pos' = e.pos
        /\ bytes_left' = e.bytes_left
        /\ pixel_out' = [ok |-> e.ok, val |-> e.val]
        /\ last' = [op |-> "convert_pixel", size |-> pixel_type, pos0 |-> pos,
                    left0 |-> bytes_left, ret |-> <<>>]
        /\ UNCHANGED <<std_eof, stream, pixel_type, adj, texVars>>

NextPixel == ConvertPixel

SpecPixel == InitPixel /\ [][NextPixel]_vars

\* the table of the pixel codes: the bytes a code takes, and the sample it gives
\* for the bytes b
PixelWidth(code) == CASE code \in {0, 1} -> 4 [] code = 10 -> 1 [] OTHER -> 2

PixelTable(code, b) ==
    LET v == b[1] + 256 * b[2]
    IN  CASE code \in {0, 1} -> <<b[1], b[2], b[3], b[4]>>
          [] code = 2  -> << ((v \div 4096) % 16) * 16, ((v \div 256) % 16) * 16,
                             ((v \div 16) % 16) * 16, (v % 16) * 16 >>
          [] code = 3  -> << ((v \div 2048) % 32) * 8, ((v \div 64) % 32) * 8,
                             ((v \div 2) % 32) * 8, (v % 2) * 128 >>
          [] code = 4  -> << ((v \div 2048) % 32) * 8, ((v \div 32) % 64) * 4,
                             (v % 32) * 8, 255 >>
          [] code = 6  -> << b[2], b[2], b[2], b[1] >>
          [] code = 10 -> << b[1], b[1], b[1], b[1] >>

\* C6: for every recognized pixel code, whenever at least the code's byte width
\* remains in the cursor (exactly that many included), convert_pixel returns the
\* table's value for the next bytes, bit for bit.
C6_PixelTable ==
    ( /\ last.op = "convert_pixel"
      /\ pixel_type \in {0, 1, 2, 3, 4, 6, 10}
      /\ last.left0 >= PixelWidth(pixel_type) )
    => /\ pixel_out.ok
       /\ pixel_out.val = PixelTable(pixel_type,
                             SubSeq(stream, last.pos0 + 1,
                                    last.pos0 + PixelWidth(pixel_type)))

\* the same for the codes that read through read_uint16 and read_byte only
Pixel_TypedCodesMatchTable ==
    ( /\ last.op = "convert_pixel"
      /\ pixel_type \in {2, 3, 4, 6, 10}
      /\ last.left0 >= PixelWidth(pixel_type) )
    => /\ pixel_out.ok
       /\ pixel_out.val = PixelTable(pixel_type,
                             SubSeq(stream, last.pos0 + 1,
                                    last.pos0 + PixelWidth(pixel_type)))

---------------------------------------------------------------------------
(* adjust_pixels (src/extractors/tex.rs), one loop test or put_pixel per     *)
(* step. s holds the arguments (img, pixels, height, width), the locals and  *)
(* the position; img is the RgbaImage's buffer, row-major, and s.put is the  *)
(* last put_pixel call.                                                      *)

block_size == 32

\* (v as f64 / block_size as f64).ceil() as u32
CeilBlocks(v) == (v + block_size - 1) \div block_size

\* RgbaImage::new(width, height): every sample zero
NewImage(width, height, zero) == [k \in 1..(width * height) |-> zero]

\* img.put_pixel(x, y, v)
PutPixel(img, width, x, y, v) == [img EXCEPT ![y * width + x + 1] = v]

NoPut == [x |-> -1, y |-> -1, i |-> -1]

AdjustEnter(img, pixels, height, width) ==
    [pc |-> "for_h", img |-> img, pixels |-> pixels, height |-> height,
     width |-> width, i |-> 0,
     h_limit |-> CeilBlocks(height), w_limit |-> CeilBlocks(width),
     _h |-> 0, _w |-> 0, h |-> 0, w |-> 0, put |-> NoPut]

\* the two while conditions
RowOpenNoBlockEnd(h, bh, height) == h < height
RowOpen(h, bh, height) == h # (bh + 1) * block_size /\ h < height
ColOpen(w, bw, width)  == w # (bw + 1) * block_size /\ w < width

\* for _h in 0..h_limit
AdjustForH(s) ==
    IF s._h < s.h_limit
    THEN [s EXCEPT !.pc = "for_w", !._w = 0]
    ELSE [s EXCEPT !.pc = "done"]

\* for _w in 0..w_limit { let mut h = _h * block_size; ...
AdjustForW(s) ==
    IF s._w < s.w_limit
    THEN [s EXCEPT !.pc = "while_h", !.h = s._h * block_size]
    ELSE [s EXCEPT !.pc = "for_h", !._h = s._h + 1]

\* while h != (_h + 1) * block_size && h < height { let mut w = _w * block_size; ...
AdjustWhileH(s) ==
    IF RowOpen(s.h, s._h, s.height)
    THEN [s EXCEPT !.pc = "while_w", !.w = s._w * block_size]
    ELSE [s EXCEPT !.pc = "for_w", !._w = s._w + 1]

\* while w != (_w + 1) * block_size && w < width { put_pixel(w, h, pixels[i]); ...
\* pixels[i] past the end, and put_pixel outside the image, panic
AdjustWhileW(s) ==
    IF ColOpen(s.w, s._w, s.width)
    THEN IF s.i >= Len(s.pixels) \/ s.w >= s.width \/ s.h >= s.height
         THEN [s EXCEPT !.pc = "panic"]
         ELSE [s EXCEPT !.img = PutPixel(s.img, s.width, s.w, s.h, s.pixels[s.i + 1]),
                        !.put = [x |-> s.w, y |-> s.h, i |-> s.i],
                        !.i = s.i + 1,
                        !.w = s.w + 1]
    ELSE [s EXCEPT !.pc = "while_h", !.h = s.h + 1]

AdjustStep(s) ==
    CASE s.pc = "for_h"   -> AdjustForH(s)
      [] s.pc = "for_w"   -> AdjustForW(s)
      [] s.pc = "while_h" -> AdjustWhileH(s)
      [] s.pc = "while_w" -> AdjustWhileW(s)

\* the whole call
RECURSIVE AdjustRun(_)
AdjustRun(s) == IF s.pc \in {"done", "panic"} THEN s ELSE AdjustRun(AdjustStep(s))

adjust_pixels(img, pixels, height, width) ==
    AdjustRun(AdjustEnter(img, pixels, height, width))

---------------------------------------------------------------------------
(* SpecTile: adjust_pixels on the block-scan serialization of a raster grid. *)

\* widths and heights: at, just below and just above a whole number of blocks
TileDims == {d \in 0..(MaxBlocks * block_size + 1) :
                d % block_size \in {0, 1, block_size - 1}}

\* the raster grid that is serialized: the sample at (x, y) names its place
GridSample(x, y, width) == y * width + x + 1
RasterGrid(width, height) == [k \in 1..(width * height) |-> k]

\* The i-th coordinate (from 0) of the 32x32 block scan of a width x height image:
\* bands of 32 rows top to bottom, in a band the tiles left to right, in a tile the
\* rows top to bottom and the columns left to right, clipped at the image's edge.
ScanCoord(i, width, height) ==
    LET band   == i \div (block_size * width)
        inBand == i % (block_size * width)
        bandH  == Min(block_size, height - block_size * band)
        tile   == inBand \div (block_size * bandH)
        inTile == inBand % (block_size * bandH)
        tileW  == Min(block_size, width - block_size * tile)
    IN  [x |-> block_size * tile + (inTile % tileW),
         y |-> block_size * band + (inTile \div tileW)]

\* the grid, serialized in block-scan order
Serialized(width, height) ==
    [k \in 1..(width * height) |->
        LET c == ScanCoord(k - 1, width, height) IN GridSample(c.x, c.y, width)]

InitTile ==
    /\ std_eof = FALSE
    /\ stream = <<>> /\ pos = 0 /\ bytes_left = 0
    /\ last = NoLast
    /\ IdlePixel /\ IdleTex
    /\ \E width \in TileDims, height \in TileDims :
          adj = AdjustEnter(NewImage(width, height, 0), Serialized(width, height),
                            height, width)

TileStay == UNCHANGED <<readerVars, last, pixelVars, texVars>>

TileForH   == adj.pc = "for_h"   /\ adj' = AdjustForH(adj)   /\ TileStay
TileForW   == adj.pc = "for_w"   /\ adj' = AdjustForW(adj)   /\ TileStay
TileWhileH == adj.pc = "while_h" /\ adj' = AdjustWhileH(adj) /\ TileStay
TileWhileW == adj.pc = "while_w" /\ adj' = AdjustWhileW(adj) /\ TileStay

NextTile ==
    \/ TileForH
    \/ TileForW
    \/ TileWhileH
    \/ TileWhileW

SpecTile == InitTile /\ [][NextTile]_vars

\* C7: for every width and height adjust_pixels puts the i-th element of the flat
\* input at the i-th coordinate of the block scan, the index never reaches
\* width * height before the scan ends, and when it ends every coordinate has been
\* visited once: the serialized grid is back in raster order.
C7_TileRoundTrip ==
    /\ adj.pc # "panic"
    /\ adj.put.i >= 0 =>
          /\ adj.put.i < adj.width * adj.height
          /\ [x |-> adj.put.x, y |-> adj.put.y]
                = ScanCoord(adj.put.i, adj.width, adj.height)
    /\ adj.pc = "done" =>
          /\ adj.i = adj.width * adj.height
          /\ adj.img = RasterGrid(adj.width, adj.height)

\* the scan of an image of more than one block each way, neither a whole number of
\* blocks, has ended
C7_Witness ==
    /\ adj.pc = "done"
    /\ adj.width > block_size /\ adj.width % block_size # 0
    /\ adj.height > block_size /\ adj.height % block_size # 0
    /\ adj.i = adj.width * adj.height
    /\ adj.img = RasterGrid(adj.width, adj.height)

---------------------------------------------------------------------------
(* utils::decompress and the head of process_tex (src/utils.rs 127-176,      *)
(* src/extractors/tex.rs 135-152).                                           *)

MinTexSize == 35

BE32(b) == 16777216 * b[1] + 65536 * b[2] + 256 * b[3] + b[4]

MagicSCLZ == <<83, 67, 76, 90>>
MagicZstd == <<40, 181, 47, 253>>

\* The index checks of decompress(raw) up to the call of the decompressor, which is
\* a library: "panic" when a slice is out of range, else the algorithm reached.
\* lzham: raw[4..5], raw[5..9] and raw[9..] are sliced before the call (where the
\* target has lzham; elsewhere the branch returns its error at once).
DecompressReach(raw, has_lzham) ==
    IF Len(raw) < 4 THEN "panic"
    ELSE IF SubSeq(raw, 1, 4) = MagicSCLZ
         THEN IF ~has_lzham THEN "unsupported"
              ELSE IF Len(raw) < 9 THEN "panic" ELSE "lzham"
    ELSE IF SubSeq(raw, 1, 4) = MagicZstd THEN "zstd"
    ELSE IF Len(raw) < 9 THEN "panic" ELSE "lzma"

\* what the LZMA decoder is given: raw[0..9], four zero bytes, raw[9..]
LzmaSplice(raw) == SubSeq(raw, 1, 9) \o Zeros(4) \o SubSeq(raw, 10, Len(raw))

\* the bytes the library is called with: lzham raw[9..], zstd raw, lzma the splice
DecompressFeeds(raw, reach) ==
    CASE reach = "lzham" -> SubSeq(raw, 10, Len(raw))
      [] reach = "zstd"  -> raw
      [] reach = "lzma"  -> LzmaSplice(raw)

version_of(raw)     == BE32(SubSeq(raw, 3, 6))
hash_length_of(raw) == BE32(SubSeq(raw, 7, 10))

\* match version { 0 | 1 | 3 => decompress(..), _ => raw_data.to_vec() }
IsCompressed(version) == version \in {0, 1, 3}

---------------------------------------------------------------------------
(* The chunk loop of process_tex (src/extractors/tex.rs 154-213).           *)

possible_types_and_zero == {0, 1, 24, 27, 28}
possible_types == {1, 24, 27, 28}

\* the two nested for loops over y and x, k pixels done: convert_pixel, push,
\* put_pixel(x, y); an Err leaves them at once
RECURSIVE DecodePixels(_, _, _, _, _, _, _)
DecodePixels(buf, r, sub_type, width, height, k, acc) ==
    IF k = width * height
    THEN [pos |-> r.pos, bytes_left |-> r.bytes_left, ok |-> TRUE,
          pixels |-> acc.pixels, img |-> acc.img]
    ELSE LET e == convert_pixel(buf, r, sub_type)
         IN  IF ~e.ok
             THEN [pos |-> e.pos, bytes_left |-> e.bytes_left, ok |-> FALSE,
                   pixels |-> acc.pixels, img |-> acc.img]
             ELSE DecodePixels(buf, [pos |-> e.pos, bytes_left |-> e.bytes_left],
                      sub_type, width, height, k + 1,
                      [pixels |-> Append(acc.pixels, e.val),
                       img |-> PutPixel(acc.img, width, k % width, k \div width, e.val)])

ZeroPixel == <<0, 0, 0, 0>>

\* What process_tex does up to the loop. The decompressor is a library: it fails
\* (lib_fails) or gives a buffer (lib_out); has_lzham is the build's target.
process_tex_head(raw, has_lzham, lib_fails, lib_out) ==
    LET Return(r) == [pc |-> "returned", result |-> r, output |-> <<>>, handed |-> NoHand]
        Panic     == [pc |-> "panicked", result |-> "panic", output |-> <<>>,
                      handed |-> NoHand]
    IN  IF Len(raw) < MinTexSize
        THEN Return("DecompressionError")      \* "Size of file is too small"
        ELSE
        LET version     == version_of(raw)
            hash_length == hash_length_of(raw)
        IN  IF IsCompressed(version)
            THEN IF 10 + hash_length > Len(raw)
                 THEN Panic                    \* &raw_data[10 + hash_length..]
                 ELSE
                 LET slice == SubSeq(raw, 10 + hash_length + 1, Len(raw))
                     reach == DecompressReach(slice, has_lzham)
                 IN  CASE reach = "panic" -> Panic
                       [] reach = "unsupported" -> Return("DecompressionError")
                       [] OTHER ->
                            IF lib_fails
                            THEN Return("DecompressionError")
                            ELSE [pc |-> "loop", result |-> "none", output |-> lib_out,
                                  handed |-> [via |-> reach, input |-> slice,
                                              fed |-> DecompressFeeds(slice, reach)]]
            ELSE [pc |-> "loop", result |-> "none", output |-> raw,
                  handed |-> [via |-> "to_vec", input |-> raw, fed |-> <<>>]]

---------------------------------------------------------------------------
(* The inputs of Spec: raw files, and the buffers a decompressor may give.  *)

LE16B(v) == <<v % 256, v \div 256>>
LE32B(v) == <<v % 256, (v \div 256) % 256, (v \div 65536) % 256, v \div 16777216>>
BE32B(v) == <<v \div 16777216, (v \div 65536) % 256, (v \div 256) % 256, v % 256>>

\* a raw file of len bytes: "SC", the version, the hash length, zero bytes, and the
\* magic where the compressed slice starts (as far as the file reaches)
RawFile(len, version, hash_length, magic) ==
    LET full == <<83, 67>> \o BE32B(version) \o BE32B(hash_length)
                \o [k \in 1..MinTexSize |->
                       IF k > hash_length /\ k <= hash_length + 4
                       THEN magic[k - hash_length] ELSE 0]
    IN  SubSeq(full, 1, len)

MagicLzma == <<93, 0, 0, 4>>

\* every length, version and hash length with the LZMA start; the other two magics
\* with version 1
RawInputs ==
    {RawFile(len, version, hash_length, magic) :
        len \in {0, 9, MinTexSize - 1, MinTexSize},
        version \in {0, 1, 2, 3},
        hash_length \in {16, 20, 22, 26},
        magic \in {MagicLzma}}
    \cup
    {RawFile(len, 1, hash_length, magic) :
        len \in {MinTexSize - 1, MinTexSize},
        hash_length \in {16, 20, 22, 26},
        magic \in {MagicSCLZ, MagicZstd}}

ChunkBytes(type, size, payload) == <<type>> \o LE32B(size) \o payload

OpaqueChunk(type, size, payload) ==
    [kind |-> "opaque", bytes |-> ChunkBytes(type, size, payload)]

ImageChunk(kind, type, sub_type, width, height, px) ==
    [kind |-> kind, type |-> type, width |-> width, height |-> height,
     sub_type |-> sub_type, px |-> px,
     bytes |-> ChunkBytes(type, 5 + Len(px),
                          <<sub_type>> \o LE16B(width) \o LE16B(height) \o px)]

ValidImages ==
    { ImageChunk("image", 1, 10, 2, 1, <<5, 6>>),
      ImageChunk("image", 28, 4, 1, 2, <<255, 255, 0, 0>>),
      ImageChunk("image", 24, 0, 1, 1, <<1, 2, 3, 4>>) }

\* a recognized image chunk of unknown sub-type 5, one pixel of four bytes
BadImages == { ImageChunk("bad", 1, 5, 1, 1, <<0, 0, 0, 0>>) }

OpaqueChunks ==
    { OpaqueChunk(0, 0, <<>>),
      OpaqueChunk(2, 2, <<7, 7>>),
      OpaqueChunk(3, 9, <<7>>),                     \* declares more than is there
      [kind |-> "opaque", bytes |-> <<2, 1, 0>>] }  \* a header cut short

ChunkKinds == ValidImages \cup BadImages \cup OpaqueChunks

RECURSIVE Containers(_)
Containers(n) ==
    IF n = 0 THEN {<<>>}
    ELSE LET shorter == Containers(n - 1)
         IN  shorter \cup {c \o k.bytes : c \in shorter, k \in ChunkKinds}

---------------------------------------------------------------------------
(* Spec: process_tex.                                                       *)

Init ==
    /\ std_eof \in BOOLEAN
    /\ stream = <<>> /\ pos = 0 /\ bytes_left = 0
    /\ last = NoLast
    /\ IdlePixel /\ IdleAdj
    /\ raw_data \in RawInputs
    /\ pc = "start"
    /\ result = "none"
    /\ pic_count = 0
    /\ files = <<>>
    /\ chunk = NoChunk
    /\ trace = <<>>
    /\ handed = NoHand

TexStay == UNCHANGED <<std_eof, last, pixelVars, adj, raw_data>>

SetReader(e) == pos' = e.pos /\ bytes_left' = e.bytes_left

\* lines 135-159: the size check, the dispatch, Reader::new
Dispatch ==
    /\ pc = "start"
    /\ \E has_lzham \in BOOLEAN, lib_fails \in BOOLEAN, lib_out \in Containers(MaxChunks) :
          LET d == process_tex_head(raw_data, has_lzham, lib_fails, lib_out)
          IN  /\ pc' = d.pc
              /\ result' = d.result
              /\ handed' = d.handed
              /\ stream' = d.output
              /\ SetReader(Reader_new(d.output))
    /\ UNCHANGED <<pic_count, files, chunk, trace>>
    /\ TexStay

\* lines 161-165: the loop test, the type byte and the size
ChunkHeader ==
    /\ pc = "loop"
    /\ bytes_left > 0
    /\ LET t == Reader_read_byte(stream, TheReader)
           z == Reader_read_uint32(stream, [pos |-> t.pos, bytes_left |-> t.bytes_left])
       IN  /\ SetReader(z)
           /\ chunk' = [file_type |-> t.val, file_size |-> z.val]
           /\ trace' = Append(trace, [at |-> pos, type |-> t.val, size |-> z.val,
                                       left0 |-> bytes_left])
           /\ pc' = IF t.val \in possible_types THEN "image" ELSE "skip"
    /\ UNCHANGED <<stream, result, pic_count, files, handed>>
    /\ TexStay

\* lines 165-168: an opaque chunk; the Vec read returns is dropped
SkipChunk ==
    /\ pc = "skip"
    /\ SetReader(ReaderReadTo(stream, TheReader, chunk.file_size))
    /\ chunk' = NoChunk
    /\ pc' = "loop"
    /\ UNCHANGED <<stream, result, pic_count, files, trace, handed>>
    /\ TexStay

\* lines 170-184: the image header, the empty pixels and image
ImageHeader ==
    /\ pc = "image"
    /\ LET s == Reader_read_byte(stream, TheReader)
           w == Reader_read_uint16(stream, [pos |-> s.pos, bytes_left |-> s.bytes_left])
           h == Reader_read_uint16(stream, [pos |-> w.pos, bytes_left |-> w.bytes_left])
       IN  /\ SetReader(h)
           /\ IF w.val * h.val > MaxPixels
              THEN /\ pc' = "cut"
                   /\ chunk' = NoChunk
              ELSE /\ pc' = "pixels"
                   /\ chunk' = [file_type |-> chunk.file_type,
                                file_size |-> chunk.file_size,
                                sub_type |-> s.val, width |-> w.val, height |-> h.val,
                                pixels |-> <<>>,
                                img |-> NewImage(w.val, h.val, ZeroPixel)]
    /\ UNCHANGED <<stream, result, pic_count, files, trace, handed>>
    /\ TexStay

\* lines 185-198: the pixel loops; on UnknownPixel, continue 'main
DecodeChunk ==
    /\ pc = "pixels"
    /\ LET d == DecodePixels(stream, TheReader, chunk.sub_type, chunk.width,
                             chunk.height, 0, [pixels |-> <<>>, img |-> chunk.img])
       IN  /\ SetReader(d)
           /\ IF d.ok
              THEN /\ pc' = "emit"
                   /\ chunk' = [chunk EXCEPT !.pixels = d.pixels, !.img = d.img]
              ELSE /\ pc' = "loop"
                   /\ chunk' = NoChunk
    /\ UNCHANGED <<stream, result, pic_count, files, trace, handed>>
    /\ TexStay

\* lines 200-202: the image as it is saved
Adjusted ==
    IF chunk.file_type \in {27, 28}
    THEN adjust_pixels(chunk.img, chunk.pixels, chunk.height, chunk.width)
    ELSE [pc |-> "done", img |-> chunk.img]

\* lines 204-210: the image is saved under the name with pic_count underscores
SaveSprite ==
    /\ pc = "emit"
    /\ IF Adjusted.pc = "panic"
       THEN /\ pc' = "panicked"
            /\ result' = "panic"
            /\ UNCHANGED <<files, pic_count>>
       ELSE /\ pc' = "loop"
            /\ files' = Append(files, [suffix |-> pic_count, width |-> chunk.width,
                                       height |-> chunk.height, img |-> Adjusted.img])
            /\ pic_count' = pic_count + 1
            /\ UNCHANGED result
    /\ chunk' = NoChunk
    /\ UNCHANGED <<readerVars, trace, handed>>
    /\ UNCHANGED <<last, pixelVars, adj, raw_data>>

\* lines 206-208: img.save fails
SaveFails ==
    /\ pc = "emit"
    /\ Adjusted.pc # "panic"
    /\ pc' = "returned"
    /\ result' = "IoError"
    /\ chunk' = NoChunk
    /\ UNCHANGED <<readerVars, pic_count, files, trace, handed>>
    /\ UNCHANGED <<last, pixelVars, adj, raw_data>>

\* lines 161, 213: the loop ends
Finish ==
    /\ pc = "loop"
    /\ ~(bytes_left > 0)
    /\ pc' = "returned"
    /\ result' = "Ok"
    /\ UNCHANGED <<readerVars, pic_count, files, chunk, trace, handed>>
    /\ UNCHANGED <<last, pixelVars, adj, raw_data>>

Next ==
    \/ Dispatch
    \/ ChunkHeader
    \/ SkipChunk
    \/ ImageHeader
    \/ DecodeChunk
    \/ SaveSprite
    \/ SaveFails
    \/ Finish

Spec == Init /\ [][Next]_vars

Ended == pc \in {"returned", "panicked", "cut"}

---------------------------------------------------------------------------
(* The claims about process_tex.                                            *)

Decompressors == {"lzma", "lzham", "zstd"}

\* the sprite a valid image chunk stands for: its samples by the pixel table, put
\* at their raster places (block-scan order for the tiled types 27 and 28)
ExpectedImg(t) ==
    LET n == PixelWidth(t.sub_type)
        sample(i) == PixelTable(t.sub_type, SubSeq(t.px, i * n + 1, (i + 1) * n))
    IN  [k \in 1..(t.width * t.height) |->
            IF t.type \in {27, 28}
            THEN sample(CHOOSE i \in 0..(t.width * t.height - 1) :
                            ScanCoord(i, t.width, t.height)
                              = [x |-> (k - 1) % t.width, y |-> (k - 1) \div t.width])
            ELSE sample(k - 1)]

ExpectedSprite(t, n) ==
    [suffix |-> n, width |-> t.width, height |-> t.height, img |-> ExpectedImg(t)]

\* the places of chunk t's pixel payload when it starts at offset at
PayloadPlaces(t, at) == (at + 10)..(at + Len(t.bytes) - 1)

\* C1: a decompressed container of three recognized image chunks, exactly one of
\* them of unknown sub-type with pixel bytes, wherever it sits, yields exactly the two
\* valid sprites in container order with 0 and 1 underscores, and no byte of the
\* abandoned chunk's payload is read as a chunk header.
C1_BadChunkAbandonedCleanly ==
    \A a, b, c \in ValidImages \cup BadImages :
        ( /\ handed.via \in Decompressors
          /\ stream = a.bytes \o b.bytes \o c.bytes
          /\ Cardinality({k \in 1..3 : <<a, b, c>>[k].kind = "bad"}) = 1 )
        =>
        LET valid == SelectSeq(<<a, b, c>>, LAMBDA t : t.kind = "image")
            starts == <<0, Len(a.bytes), Len(a.bytes) + Len(b.bytes)>>
            bad == CHOOSE k \in 1..3 : <<a, b, c>>[k].kind = "bad"
        IN  /\ \A k \in 1..Len(trace) :
                  trace[k].at \notin PayloadPlaces(<<a, b, c>>[bad], starts[bad])
            /\ (pc = "returned" /\ result # "IoError") =>
                  /\ result = "Ok"
                  /\ files = <<ExpectedSprite(valid[1], 0), ExpectedSprite(valid[2], 1)>>

\* C2: every raw input shorter than 35 bytes fails with SizeError, and no other
\* kind, before any decompression or parsing, and no file is written.
C2_ShortInputIsSizeError ==
    (Len(raw_data) < 35 /\ pc # "start") =>
        /\ pc = "returned"
        /\ result = "SizeError"
        /\ handed = NoHand
        /\ trace = <<>>
        /\ files = <<>>

\* C5: the buffer the chunk parser gets: for version 0, 1 or 3 what the decompressor
\* makes of the bytes after the (10 + hash_length)-byte header; for every other
\* version those bytes themselves, the header not among them.
C5_ParserBufferIsAfterHeader ==
    handed.via # "none" =>
        LET after == SubSeq(raw_data, 10 + hash_length_of(raw_data) + 1, Len(raw_data))
        IN  IF version_of(raw_data) \in {0, 1, 3}
            THEN handed.via \in Decompressors /\ handed.input = after
            ELSE stream = after

\* C8: when every chunk type byte the loop reads is outside {1, 24, 27, 28} (a last
\* chunk cut short or declaring more than is left included), process_tex writes no
\* file and returns Ok.
C8_OpaqueOnlyWritesNothing ==
    ( /\ handed.via # "none"
      /\ \A k \in 1..Len(trace) : trace[k].type \notin {1, 24, 27, 28} )
    => /\ files = <<>>
       /\ pic_count = 0
       /\ pc \in {"loop", "skip", "returned"}
       /\ pc = "returned" => result = "Ok"

\* a decompressed container of two or more chunks, all opaque, the last declaring
\* more bytes than are left, has been read to its end
C8_Witness ==
    /\ handed.via \in Decompressors
    /\ pc = "returned" /\ result = "Ok" /\ files = <<>>
    /\ Len(trace) >= 2
    /\ \A k \in 1..Len(trace) : trace[k].type \notin {1, 24, 27, 28}
    /\ trace[Len(trace)].size > Len(stream) - (trace[Len(trace)].at + 5)

\* C9: for every raw input of at least 35 bytes with version 0, 1 or 3, whatever the
\* hash length and the length of the slice after the header, the dispatch ends with a
\* decompressed buffer or with DecompressionError: no slice is out of bounds.
C9_DispatchStaysInBounds ==
    ( /\ Len(raw_data) >= 35
      /\ version_of(raw_data) \in {0, 1, 3}
      /\ pc # "start" )
    => \/ handed.via \in Decompressors
       \/ pc = "returned" /\ result = "DecompressionError"

\* how far a running call is from the head of the loop, at most
StepsToLoopHead ==
    CASE pc = "image"  -> 4
      [] pc = "pixels" -> 3
      [] pc = "emit"   -> 2
      [] pc = "skip"   -> 1
      [] OTHER         -> 0

\* a number that is never negative; termination is that every step lowers it
LoopRank == IF Ended THEN 0 ELSE 1 + 5 * bytes_left + StepsToLoopHead

\* C10: the chunk loop terminates: every iteration, whether it skips a chunk, saves
\* a sprite or abandons a chunk, leaves bytes_left strictly below what the iteration
\* started with while it is positive, so every step of the loop brings the call
\* nearer to its end (remaining = 0 and Ok, or an error).
C10_LoopTerminates ==
    /\ [](/\ \A k \in 2..Len(trace) : trace[k].left0 < trace[k - 1].left0
          /\ (pc = "loop" /\ trace # <<>>) => bytes_left < trace[Len(trace)].left0
          /\ bytes_left >= 0)
    /\ [][pc # "start" => LoopRank' < LoopRank]_vars

\* a call has returned Ok after skipping a chunk, saving a sprite and abandoning a
\* chunk
C10_Witness ==
    /\ pc = "returned" /\ result = "Ok"
    /\ Len(trace) >= 3
    /\ \E k \in 1..Len(trace) : trace[k].type \notin possible_types
    /\ Len(files) >= 1
    /\ Cardinality({k \in 1..Len(trace) : trace[k].type \in possible_types}) > Len(files)

=============================================================================
